---- MODULE Spec2Model ----
(***************************************************************************)
(* A model of package netproxy (src/httpproxy.go):                         *)
(*   - the HTTP/HTTPS CONNECT tunnel dialer (httpProxy.Dial, connect) and  *)
(*     the bufferedConn it returns;                                        *)
(*   - envOnce, the once-only lookup of an environment variable;           *)
(*   - FromURL / RegisterDialerType / FromEnvironment.                     *)
(* Six specifications share the variables:                                 *)
(*   Spec            one tunnel Dial, step by step, the clock passing its  *)
(*                   deadlines, and the caller's Reads and Writes after it *)
(*   SpecLive        one tunnel Dial under fairness, to its return         *)
(*   SpecConcurrent  two tunnel Dials interleaved on one dialer            *)
(*   SpecEnvOnce     concurrent Get calls on one envOnce entry             *)
(*   SpecResolve     RegisterDialerType, FromURL and FromEnvironment calls *)
(*   SpecRace        RegisterDialerType and FromURL on different threads   *)
(***************************************************************************)
EXTENDS Integers, Sequences, FiniteSets, TLC

VARIABLES
    dialer,        \* the *httpProxy the Dial calls are made on
    pc,            \* pc[c]: where Dial call c stands
    args,          \* args[c]: the (network, addr) call c was given
    fwd,           \* fwd[c]: what call c asked of s.forward.Dial
    conn,          \* conn[c]: the raw net.Conn the forward dialer returned
    resp,          \* resp[c]: the *http.Response http.ReadResponse returned
    failed,        \* failed[c]: the step of call c that failed ("" if none)
    cret,          \* cret[c]: what s.connect returned to Dial
    ret,           \* ret[c]: what Dial returned to its caller
    sent,          \* sent[c]: the bytes the proxy sent after the headers
    br,            \* br[c]: unread bytes held by the *bufio.Reader
    wire,          \* wire[c]: bytes of sent[c] not yet read off the raw conn
    got,           \* got[c]: bytes Read has returned to the caller so far
    lastRead,      \* lastRead[c]: the source, size and error of the latest
                   \* Read, and the bytes each source has served so far
    dials,         \* dials[c]: how often call c has called s.forward.Dial
    lastWrite,     \* lastWrite[c]: how the caller's latest Write on the
                   \* returned connection ended ("" before the first)
    environ,       \* the process environment: variable name -> value
    once,          \* once[e]: the sync.Once of envOnce entry e
    val,           \* val[e]: e.val
    tpc,           \* tpc[t]: where thread t stands in e.Get()
    tidx,          \* tidx[t]: the index into e.names thread t's init is at
    tret,          \* tret[t]: what thread t's latest Get returned
    initCalls,     \* how many times e.init has been entered
    looked,        \* the value e.val held when e.init last returned
    proxySchemes,  \* the registry map of RegisterDialerType
    latest,        \* latest[s]: the factory most recently registered for scheme
                   \* s, "none" if there was none
    last,          \* the latest FromURL / FromEnvironment call and its result
    racer,         \* racer[t]: thread t's call of RegisterDialerType or FromURL
    ordered        \* whether every register call ends before a FromURL starts

tunnelVars == <<dialer, pc, args, fwd, conn, resp, failed, cret, ret,
                sent, br, wire, got, lastRead, dials, lastWrite>>
envVars == <<environ, once, val, tpc, tidx, tret, initCalls, looked>>
resolveVars == <<proxySchemes, latest, last>>
raceVars == <<racer, ordered>>
vars == <<tunnelVars, envVars, resolveVars, raceVars>>

-----------------------------------------------------------------------------
(* Bounds *)

MaxStream == 3     \* longest byte sequence the proxy sends after the headers
BufCap == 2        \* most bytes the bufio.Reader holds beyond the headers
MaxRead == 2       \* largest len(b) a caller passes to Read
NumThreads == 2    \* threads calling Get concurrently

-----------------------------------------------------------------------------
(* Values *)

NilErr == [nil |-> TRUE, msg |-> ""]
Err(m) == [nil |-> FALSE, msg |-> m]

\* var auth *Auth: the nil pointer, or a pointer to {User, Password}
NilAuth == [nil |-> TRUE, User |-> "", Password |-> ""]
AuthOf(u, p) == [nil |-> FALSE, User |-> u, Password |-> p]

Direct == [kind |-> "direct"]

Min(a, b) == IF a < b THEN a ELSE b

RECURSIVE SeqsUpTo(_, _)
SeqsUpTo(S, n) ==
    IF n = 0 THEN {<<>>}
    ELSE LET shorter == SeqsUpTo(S, n - 1)
         IN  shorter \cup {Append(s, x) : s \in {t \in shorter : Len(t) = n - 1}, x \in S}

Bytes == {1, 2}
Streams == SeqsUpTo(Bytes, MaxStream)

-----------------------------------------------------------------------------
(* The tunnel dialer *)

HTTPProxyDialer(network, addr, auth, forward, timeout) ==
    [kind     |-> "httpProxy",
     network  |-> network,
     addr     |-> addr,
     forward  |-> forward,
     timeout  |-> timeout,
     user     |-> IF auth.nil THEN "" ELSE auth.User,
     password |-> IF auth.nil THEN "" ELSE auth.Password]

dialAddrNoUserCheck(s) ==
    LET addr == IF s.password # "" THEN s.user \o ":" \o s.password ELSE s.user
    IN  addr \o "@" \o s.addr

dialAddr(s) ==
    IF s.user = "" THEN s.addr
    ELSE LET addr == IF s.password # "" THEN s.user \o ":" \o s.password ELSE s.user
         IN  addr \o "@" \o s.addr

\* the Dial calls in flight on the dialer
Calls == {1}

ProxyNetworks == {"tcp", "tcp4"}
ProxyAddrs == {"proxy:8080"}
Auths == {NilAuth, AuthOf("u", ""), AuthOf("u", "p"), AuthOf("", "p")}
DialNetworks == {"tcp", "udp"}
Targets == {"example.com:443"}
DialErrors == {"dial tcp: connection refused"}
DeadlineErrors == {"set deadline: use of closed network connection"}
WriteErrors == {"write: broken pipe"}
ParseErrors == {"malformed HTTP response", "unexpected EOF"}
Statuses == {"200 OK", "200 Connection established", "201 Created",
             "407 Proxy Authentication Required", "502 Bad Gateway"}

\* What the other end of the raw connection does: it takes the request and
\* answers, takes the request and never answers, or never takes a byte.
Peers == {"answers", "silent", "stalled"}

\* the error of a Read or Write whose deadline has passed
TimeoutError == "i/o timeout"

\* resp.StatusCode, as http.ReadResponse parses it off the status line
StatusCodeOf(status) ==
    CASE status = "200 OK" -> 200
      [] status = "200 Connection established" -> 200
      [] status = "201 Created" -> 201
      [] status = "407 Proxy Authentication Required" -> 407
      [] status = "502 Bad Gateway" -> 502

\* A raw connection: rd and wd are its read and write deadline ("unset",
\* "armed" while the instant is still to come, "expired" once it has passed),
\* deadlines the setters Dial has called on it, users the calls that have
\* operated on it.
NoConn == [state |-> "none", peer |-> "none", deadlines |-> <<>>,
           rd |-> "unset", wd |-> "unset", written |-> <<>>, closes |-> 0,
           users |-> {}]
NoResp == [Status |-> "", StatusCode |-> 0]
NoRet == [conn |-> "nil", err |-> NilErr]
NoRead == [src |-> "none", n |-> 0, fromReader |-> 0, fromConn |-> 0, err |-> ""]

\* Dial with the connection kept in one place shared by all calls: every
\* call operates on the connection dialed last
ConnOfShared(c) ==
    LET dialed == {k \in DOMAIN conn : conn[k].state # "none"}
    IN  IF dialed = {} THEN c
        ELSE CHOOSE k \in dialed : \A j \in dialed : j <= k

\* Dial, lines 62 and 83: the connection the local variable conn of call c
\* names is the one the forward dial of call c returned
ConnOf(c) == c

\* call c operates on connection k
Use(c, k) == [k EXCEPT !.users = @ \cup {c}]

\* conn.Close()
Close(k) == [k EXCEPT !.state = "closed", !.closes = @ + 1]

\* a deadline setter that leaves the connection without a deadline
ArmNothing(name, k) == k

\* Dial, lines 67, 72, 77: conn.Set*Deadline(time.Now().Add(s.timeout))
Arm(name, k) ==
    CASE name = "SetDeadline" -> [k EXCEPT !.rd = "armed", !.wd = "armed"]
      [] name = "SetReadDeadline" -> [k EXCEPT !.rd = "armed"]
      [] name = "SetWriteDeadline" -> [k EXCEPT !.wd = "armed"]

\* Dial, lines 68-71, 73-76, 78-81: what a failed deadline setter does to conn
OnDeadlineErrorLeak(k) == k

OnDeadlineError(k) == Close(k)

\* Dial, lines 83-86: what an error from s.connect does to conn
OnConnectErrorLeak(k) == k

OnConnectErrorTwice(k) == Close(Close(k))

OnConnectError(k) == Close(k)

\* connect, line 112
StatusOK2xx(r) == r.StatusCode \div 100 = 2

StatusOK(r) == r.StatusCode = 200

\* connectReq, lines 93-98, as connectReq.Write puts it on the wire
ConnectRequest(target) ==
    [method |-> "CONNECT", uri |-> target, host |-> target]

Return(c, k, e) ==
    /\ pc' = [pc EXCEPT ![c] = "returned"]
    /\ ret' = [ret EXCEPT ![c] = [conn |-> k, err |-> e]]

\* Dial, lines 61-65: the forward dial of the proxy.  Each successful forward
\* dial opens a connection of its own.
ForwardDial(c) ==
    /\ pc[c] = "idle"
    /\ \E network \in DialNetworks, addr \in Targets :
          /\ args' = [args EXCEPT ![c] = [network |-> network, addr |-> addr]]
          /\ fwd' = [fwd EXCEPT ![c] = [network |-> dialer.network,
                                        addr |-> dialAddr(dialer)]]
    /\ dials' = [dials EXCEPT ![c] = @ + 1]
    /\ \/ \E p \in Peers :
          /\ conn' = [conn EXCEPT ![c] =
                         Use(c, [@ EXCEPT !.state = "open", !.peer = p])]
          /\ pc' = [pc EXCEPT ![c] = "setDeadline"]
          /\ UNCHANGED <<failed, ret>>
       \/ \E e \in DialErrors :
          /\ failed' = [failed EXCEPT ![c] = "forward"]
          /\ Return(c, "nil", Err(e))
          /\ UNCHANGED conn
    /\ UNCHANGED <<dialer, resp, cret, sent, br, wire, got, lastRead, lastWrite>>
    /\ UNCHANGED <<envVars, resolveVars, raceVars>>

\* One of the three deadline setters and its error check
DeadlineStep(c, at, name, next) ==
    /\ pc[c] = at
    /\ \/ /\ conn' = [conn EXCEPT ![ConnOf(c)] =
                         LET k == conn[ConnOf(c)]
                         IN  Use(c, Arm(name, [k EXCEPT !.deadlines =
                                                   Append(k.deadlines, name)]))]
          /\ pc' = [pc EXCEPT ![c] = next]
          /\ UNCHANGED <<failed, ret>>
       \/ \E e \in DeadlineErrors :
          /\ conn' = [conn EXCEPT ![ConnOf(c)] = Use(c, OnDeadlineError(@))]
          /\ failed' = [failed EXCEPT ![c] = "deadline"]
          /\ Return(c, "nil", Err(e))
    /\ UNCHANGED <<dialer, args, fwd, dials, resp, cret, sent, br, wire, got,
                   lastRead, lastWrite>>
    /\ UNCHANGED <<envVars, resolveVars, raceVars>>

\* Dial, lines 67-71
SetDeadline(c) == DeadlineStep(c, "setDeadline", "SetDeadline", "setReadDeadline")

\* Dial, lines 72-76, going on to the write without the write deadline
SetReadDeadlineThenWrite(c) ==
    DeadlineStep(c, "setReadDeadline", "SetReadDeadline", "write")

\* Dial, lines 72-76
SetReadDeadline(c) ==
    DeadlineStep(c, "setReadDeadline", "SetReadDeadline", "setWriteDeadline")

\* Dial, lines 77-81
SetWriteDeadline(c) ==
    DeadlineStep(c, "setWriteDeadline", "SetWriteDeadline", "write")

\* The clock passes the read deadline of connection k
ExpireRead(k) ==
    /\ conn[k].state = "open"
    /\ conn[k].rd = "armed"
    /\ conn' = [conn EXCEPT ![k].rd = "expired"]
    /\ UNCHANGED <<dialer, pc, args, fwd, dials, resp, failed, cret, ret, sent,
                   br, wire, got, lastRead, lastWrite>>
    /\ UNCHANGED <<envVars, resolveVars, raceVars>>

\* The clock passes the write deadline of connection k
ExpireWrite(k) ==
    /\ conn[k].state = "open"
    /\ conn[k].wd = "armed"
    /\ conn' = [conn EXCEPT ![k].wd = "expired"]
    /\ UNCHANGED <<dialer, pc, args, fwd, dials, resp, failed, cret, ret, sent,
                   br, wire, got, lastRead, lastWrite>>
    /\ UNCHANGED <<envVars, resolveVars, raceVars>>

\* connect, lines 93-102: build the CONNECT request and write it.  The write
\* returns when the peer has taken the bytes, when the connection breaks, or
\* with a timeout when the write deadline has passed; until then it blocks.
WriteRequest(c) ==
    /\ pc[c] = "write"
    /\ LET k == conn[ConnOf(c)]
       IN  \/ /\ k.wd # "expired"
              /\ k.peer # "stalled"
              /\ conn' = [conn EXCEPT ![ConnOf(c)] =
                             Use(c, [k EXCEPT !.written =
                                        Append(k.written, ConnectRequest(args[c].addr))])]
              /\ pc' = [pc EXCEPT ![c] = "readResponse"]
              /\ UNCHANGED <<failed, cret>>
           \/ \E e \in (IF k.wd = "expired" THEN {TimeoutError}
                        ELSE IF k.peer = "stalled" THEN {} ELSE WriteErrors) :
              /\ failed' = [failed EXCEPT ![c] = "write"]
              /\ cret' = [cret EXCEPT ![c] = [conn |-> "raw", err |-> Err(e)]]
              /\ pc' = [pc EXCEPT ![c] = "connectReturned"]
              /\ conn' = [conn EXCEPT ![ConnOf(c)] = Use(c, k)]
    /\ UNCHANGED <<dialer, args, fwd, dials, resp, ret, sent, br, wire, got,
                   lastRead, lastWrite>>
    /\ UNCHANGED <<envVars, resolveVars, raceVars>>

\* connect, lines 107-111: br := bufio.NewReader(conn); http.ReadResponse(br,
\* connectReq), with the proxy sending one of streams after the headers.  The
\* reader fills its buffer with whatever the connection has, so on return it
\* holds the first k bytes that follow the headers.  The read returns when
\* the peer has answered, or with a timeout when the read deadline has
\* passed; until then it blocks.
ReadResponseFrom(c, streams) ==
    /\ pc[c] = "readResponse"
    /\ \/ /\ conn[ConnOf(c)].rd # "expired"
          /\ conn[ConnOf(c)].peer = "answers"
          /\ \E status \in Statuses, s \in streams :
             \E k \in 0..Min(Len(s), BufCap) :
                /\ resp' = [resp EXCEPT ![c] = [Status |-> status,
                                                StatusCode |-> StatusCodeOf(status)]]
                /\ sent' = [sent EXCEPT ![c] = s]
                /\ br' = [br EXCEPT ![c] = SubSeq(s, 1, k)]
                /\ wire' = [wire EXCEPT ![c] = SubSeq(s, k + 1, Len(s))]
                /\ pc' = [pc EXCEPT ![c] = "checkStatus"]
                /\ UNCHANGED <<failed, cret>>
       \/ \E e \in (IF conn[ConnOf(c)].rd = "expired" THEN {TimeoutError}
                    ELSE IF conn[ConnOf(c)].peer = "answers" THEN ParseErrors
                    ELSE {}) :
          /\ failed' = [failed EXCEPT ![c] = "parse"]
          /\ cret' = [cret EXCEPT ![c] = [conn |-> "raw", err |-> Err(e)]]
          /\ pc' = [pc EXCEPT ![c] = "connectReturned"]
          /\ UNCHANGED <<resp, sent, br, wire>>
    /\ conn' = [conn EXCEPT ![ConnOf(c)] = Use(c, @)]
    /\ UNCHANGED <<dialer, args, fwd, dials, ret, got, lastRead, lastWrite>>
    /\ UNCHANGED <<envVars, resolveVars, raceVars>>

ReadResponse(c) == ReadResponseFrom(c, Streams)

\* connect, lines 112-124: the status check and the bufferedConn
CheckStatus(c) ==
    /\ pc[c] = "checkStatus"
    /\ IF StatusOK(resp[c])
       THEN /\ cret' = [cret EXCEPT ![c] = [conn |-> "bufferedConn", err |-> NilErr]]
            /\ UNCHANGED failed
       ELSE /\ cret' = [cret EXCEPT ![c] =
                  [conn |-> "raw",
                   err |-> Err("unable to proxy connection: " \o resp[c].Status)]]
            /\ failed' = [failed EXCEPT ![c] = "status"]
    /\ conn' = [conn EXCEPT ![ConnOf(c)] = Use(c, @)]
    /\ pc' = [pc EXCEPT ![c] = "connectReturned"]
    /\ UNCHANGED <<dialer, args, fwd, dials, resp, ret, sent, br, wire, got,
                   lastRead, lastWrite>>
    /\ UNCHANGED <<envVars, resolveVars, raceVars>>

\* Dial, lines 83-87: what Dial does with what s.connect returned
DialReturn(c) ==
    /\ pc[c] = "connectReturned"
    /\ IF ~cret[c].err.nil
       THEN /\ conn' = [conn EXCEPT ![ConnOf(c)] = Use(c, OnConnectError(@))]
            /\ Return(c, "nil", cret[c].err)
       ELSE /\ Return(c, cret[c].conn, NilErr)
            /\ UNCHANGED conn
    /\ UNCHANGED <<dialer, args, fwd, dials, resp, failed, cret, sent, br, wire,
                   got, lastRead, lastWrite>>
    /\ UNCHANGED <<envVars, resolveVars, raceVars>>

\* bufferedConn.Read, line 37: which of the two sources serves this Read
ReadSourceAlwaysConn(c) == "conn"

ReadSource(c) == IF Len(br[c]) > 0 THEN "reader" ELSE "conn"

\* bufferedConn.Read(b) with len(b) = size, lines 36-41.  bc.reader.Read copies
\* min(len(b), Buffered()) bytes out of the buffer and does not touch the
\* connection; bc.Conn.Read fails with a timeout when the read deadline has
\* passed, and otherwise returns between 1 and len(b) of the bytes still to
\* come, or nothing at the end.
Read(c) ==
    /\ pc[c] = "returned"
    /\ ret[c].conn = "bufferedConn"
    /\ conn[c].state = "open"
    /\ \E size \in 1..MaxRead :
          IF ReadSource(c) = "reader"
          THEN LET n == Min(size, Len(br[c]))
               IN  /\ got' = [got EXCEPT ![c] = @ \o SubSeq(br[c], 1, n)]
                   /\ br' = [br EXCEPT ![c] = SubSeq(@, n + 1, Len(@))]
                   /\ lastRead' = [lastRead EXCEPT ![c] =
                          [@ EXCEPT !.src = "reader", !.n = n, !.fromReader = @ + n,
                                    !.err = ""]]
                   /\ UNCHANGED wire
          ELSE IF conn[c].rd = "expired"
          THEN /\ lastRead' = [lastRead EXCEPT ![c] =
                      [@ EXCEPT !.src = "conn", !.n = 0, !.err = TimeoutError]]
               /\ UNCHANGED <<got, br, wire>>
          ELSE \E n \in (IF Len(wire[c]) = 0 THEN {0} ELSE 1..Min(size, Len(wire[c]))) :
                   /\ got' = [got EXCEPT ![c] = @ \o SubSeq(wire[c], 1, n)]
                   /\ wire' = [wire EXCEPT ![c] = SubSeq(@, n + 1, Len(@))]
                   /\ lastRead' = [lastRead EXCEPT ![c] =
                          [@ EXCEPT !.src = "conn", !.n = n, !.fromConn = @ + n,
                                    !.err = ""]]
                   /\ UNCHANGED br
    /\ UNCHANGED <<dialer, pc, args, fwd, dials, conn, resp, failed, cret, ret,
                   sent, lastWrite>>
    /\ UNCHANGED <<envVars, resolveVars, raceVars>>

\* bufferedConn.Write, line 30: the embedded net.Conn's Write, called by the
\* caller of Dial on the connection Dial returned
Write(c) ==
    /\ pc[c] = "returned"
    /\ ret[c].conn = "bufferedConn"
    /\ conn[c].state = "open"
    /\ lastWrite' = [lastWrite EXCEPT ![c] =
                        IF conn[c].wd = "expired" THEN TimeoutError ELSE "ok"]
    /\ UNCHANGED <<dialer, pc, args, fwd, dials, conn, resp, failed, cret, ret,
                   sent, br, wire, got, lastRead>>
    /\ UNCHANGED <<envVars, resolveVars, raceVars>>

\* bufferedConn.SetDeadline, line 30: the caller of Dial gives the connection
\* it was returned a new deadline, still to come
CallerSetDeadline(c) ==
    /\ pc[c] = "returned"
    /\ ret[c].conn = "bufferedConn"
    /\ conn[c].state = "open"
    /\ conn' = [conn EXCEPT ![c].rd = "armed", ![c].wd = "armed"]
    /\ UNCHANGED <<dialer, pc, args, fwd, dials, resp, failed, cret, ret, sent,
                   br, wire, got, lastRead, lastWrite>>
    /\ UNCHANGED <<envVars, resolveVars, raceVars>>

-----------------------------------------------------------------------------
(* int64 and time.Duration: eight 8-bit limbs, least significant first,    *)
(* two's complement; arithmetic wraps modulo 2^64 as Go's does.            *)

LimbBase == 2 ^ 8
Limbs64 == 64 \div 8

RECURSIVE NatLimbs(_, _)
NatLimbs(n, len) ==
    IF len = 0 THEN <<>> ELSE <<n % LimbBase>> \o NatLimbs(n \div LimbBase, len - 1)

\* x * k + carry over unbounded naturals (x in limbs, k and carry small)
RECURSIVE MulAdd(_, _, _)
MulAdd(x, k, carry) ==
    IF x = <<>>
    THEN IF carry = 0 THEN <<>>
         ELSE <<carry % LimbBase>> \o MulAdd(<<>>, k, carry \div LimbBase)
    ELSE LET t == Head(x) * k + carry
         IN  <<t % LimbBase>> \o MulAdd(Tail(x), k, t \div LimbBase)

\* a natural without its leading zero limbs
RECURSIVE Norm(_)
Norm(x) ==
    IF x # <<>> /\ x[Len(x)] = 0 THEN Norm(SubSeq(x, 1, Len(x) - 1)) ELSE x

\* the low 64 bits
Wrap64(x) == [i \in 1..Limbs64 |-> IF i <= Len(x) THEN x[i] ELSE 0]

RECURSIVE AddCarry(_, _)
AddCarry(x, carry) ==
    IF x = <<>> THEN <<>>
    ELSE LET t == Head(x) + carry
         IN  <<t % LimbBase>> \o AddCarry(Tail(x), t \div LimbBase)

\* -x in two's complement
Neg64(x) == AddCarry([i \in 1..Len(x) |-> LimbBase - 1 - x[i]], 1)

IsNeg64(x) == x[Limbs64] >= LimbBase \div 2

Int64(n) == NatLimbs(n, Limbs64)

\* time.Millisecond, in nanoseconds
Millisecond == 1000000

\* time.Millisecond * time.Duration(timeout), line 201: an int64 product
MillisToDuration(timeout) == Wrap64(MulAdd(timeout, Millisecond, 0))

\* The bytes of a string, for the strings TIMEOUT takes here
Chars(s) ==
    CASE s = "" -> <<>>
      [] s = "1000" -> <<"1", "0", "0", "0">>
      [] s = "500" -> <<"5", "0", "0">>
      [] s = "250" -> <<"2", "5", "0">>
      [] s = "-5" -> <<"-", "5">>
      [] s = "abc" -> <<"a", "b", "c">>
      [] s = "9223372036855" ->
             <<"9", "2", "2", "3", "3", "7", "2", "0", "3", "6", "8", "5", "5">>
      [] s = "99999999999999999999" ->
             <<"9", "9", "9", "9", "9", "9", "9", "9", "9", "9",
               "9", "9", "9", "9", "9", "9", "9", "9", "9", "9">>

DigitChars == <<"0", "1", "2", "3", "4", "5", "6", "7", "8", "9">>
IsDigit(ch) == \E d \in 1..10 : DigitChars[d] = ch
DigitVal(ch) == (CHOOSE d \in 1..10 : DigitChars[d] = ch) - 1

\* the decimal number a digit string denotes, as an unbounded natural
RECURSIVE Decimal(_, _)
Decimal(digits, acc) ==
    IF digits = <<>> THEN acc
    ELSE Decimal(Tail(digits), MulAdd(acc, 10, DigitVal(Head(digits))))

\* strconv.Atoi(s) on a 64-bit build: an optional sign, then decimal digits,
\* the value within [-2^63, 2^63 - 1]; anything else is an error.
Atoi(s) ==
    LET cs == Chars(s)
        signed == cs # <<>> /\ Head(cs) \in {"+", "-"}
        neg == cs # <<>> /\ Head(cs) = "-"
        digits == IF signed THEN Tail(cs) ELSE cs
        syntax == digits = <<>> \/ \E i \in 1..Len(digits) : ~IsDigit(digits[i])
        mag == Norm(Decimal(digits, <<>>))
        minInt == [i \in 1..Limbs64 |-> IF i = Limbs64 THEN LimbBase \div 2 ELSE 0]
        range == \/ Len(mag) > Limbs64
                 \/ Len(mag) = Limbs64 /\ mag[Limbs64] >= LimbBase \div 2
                                       /\ ~(neg /\ mag = minInt)
    IN  IF syntax \/ range
        THEN [ok |-> FALSE, n |-> Int64(0)]
        ELSE [ok |-> TRUE, n |-> IF neg THEN Neg64(Wrap64(mag)) ELSE Wrap64(mag)]

-----------------------------------------------------------------------------
(* envOnce.  reset (lines 297-301) is called by the package's tests only   *)
(* and is not an operation of the model.                                   *)

Entries == {"allProxyEnv", "noProxyEnv", "timeoutEnv"}

\* lines 261-271
Names(e) ==
    CASE e = "allProxyEnv" -> <<"ALL_PROXY", "all_proxy">>
      [] e = "noProxyEnv" -> <<"NO_PROXY", "no_proxy">>
      [] e = "timeoutEnv" -> <<"TIMEOUT", "timeout">>

EnvNames == {"ALL_PROXY", "all_proxy", "NO_PROXY", "no_proxy", "TIMEOUT", "timeout"}

\* the values each variable takes here ("" also stands for unset: os.Getenv
\* returns "" for both)
EnvValues(n) ==
    CASE n = "ALL_PROXY" -> {"", "http://u:p@proxy:8080", "https://u@proxy:8443",
                             "socks5://proxy:1080", "custom://proxy:9000", "://proxy"}
      [] n = "all_proxy" -> {"", "http://proxy:3128"}
      [] n = "NO_PROXY" -> {"", "localhost"}
      [] n = "no_proxy" -> {"", "internal.example"}
      [] n = "TIMEOUT" -> {"", "500", "abc", "-5", "9223372036855",
                           "99999999999999999999"}
      [] n = "timeout" -> {"", "250"}

Threads == 1..NumThreads

\* o.done.Load() != 0 of sync.Once, as once.Do reads it (line 284)
ResolvedByEmptiness(o, v, e) == v[e] # ""

Resolved(o, v, e) == o[e].done

\* o.m.Lock() of sync.Once can be taken (line 284)
LockFreeAlways(o, e) == TRUE

LockFree(o, e) == o[e].holder = 0

\* Get, line 284: once.Do's check of the done flag without the lock
OnceFast(e, t) ==
    /\ tpc[t] \in {"idle", "returned"}
    /\ tpc' = [tpc EXCEPT ![t] = IF Resolved(once, val, e) THEN "load" ELSE "lock"]
    /\ UNCHANGED <<environ, once, val, tidx, tret, initCalls, looked>>
    /\ UNCHANGED <<tunnelVars, resolveVars, raceVars>>

\* Get, line 284: once.Do takes the mutex
OnceLock(e, t) ==
    /\ tpc[t] = "lock"
    /\ LockFree(once, e)
    /\ once' = [once EXCEPT ![e].holder = t]
    /\ tpc' = [tpc EXCEPT ![t] = "slow"]
    /\ UNCHANGED <<environ, val, tidx, tret, initCalls, looked>>
    /\ UNCHANGED <<tunnelVars, resolveVars, raceVars>>

\* Get, line 284: once.Do checks the flag again under the mutex and, if it
\* is still clear, calls e.init
OnceSlow(e, t) ==
    /\ tpc[t] = "slow"
    /\ IF Resolved(once, val, e)
       THEN /\ tpc' = [tpc EXCEPT ![t] = "unlock"]
            /\ UNCHANGED <<tidx, initCalls>>
       ELSE /\ tpc' = [tpc EXCEPT ![t] = "init"]
            /\ tidx' = [tidx EXCEPT ![t] = 1]
            /\ initCalls' = [initCalls EXCEPT ![e] = @ + 1]
    /\ UNCHANGED <<environ, once, val, tret, looked>>
    /\ UNCHANGED <<tunnelVars, resolveVars, raceVars>>

\* init, lines 289-294: one turn of the loop over e.names
InitStep(e, t) ==
    /\ tpc[t] = "init"
    /\ LET x == environ[Names(e)[tidx[t]]]
       IN  /\ val' = [val EXCEPT ![e] = x]
           /\ IF x # "" \/ tidx[t] = Len(Names(e))
              THEN /\ tpc' = [tpc EXCEPT ![t] = "store"]
                   /\ UNCHANGED tidx
              ELSE /\ tidx' = [tidx EXCEPT ![t] = @ + 1]
                   /\ UNCHANGED tpc
    /\ UNCHANGED <<environ, once, tret, initCalls, looked>>
    /\ UNCHANGED <<tunnelVars, resolveVars, raceVars>>

\* Get, line 284: once.Do sets the done flag when e.init has returned
OnceStore(e, t) ==
    /\ tpc[t] = "store"
    /\ once' = [once EXCEPT ![e].done = TRUE]
    /\ looked' = [looked EXCEPT ![e] = val[e]]
    /\ tpc' = [tpc EXCEPT ![t] = "unlock"]
    /\ UNCHANGED <<environ, val, tidx, tret, initCalls>>
    /\ UNCHANGED <<tunnelVars, resolveVars, raceVars>>

\* Get, line 284: once.Do releases the mutex
OnceUnlock(e, t) ==
    /\ tpc[t] = "unlock"
    /\ once' = [once EXCEPT ![e].holder = 0]
    /\ tpc' = [tpc EXCEPT ![t] = "load"]
    /\ UNCHANGED <<environ, val, tidx, tret, initCalls, looked>>
    /\ UNCHANGED <<tunnelVars, resolveVars, raceVars>>

\* Get, line 285: return e.val
GetReturn(e, t) ==
    /\ tpc[t] = "load"
    /\ tret' = [tret EXCEPT ![t] = val[e]]
    /\ tpc' = [tpc EXCEPT ![t] = "returned"]
    /\ UNCHANGED <<environ, once, val, tidx, initCalls, looked>>
    /\ UNCHANGED <<tunnelVars, resolveVars, raceVars>>

\* the environment changes under the program (os.Setenv, os.Unsetenv)
Setenv(n) ==
    /\ \E v \in EnvValues(n) \ {environ[n]} : environ' = [environ EXCEPT ![n] = v]
    /\ UNCHANGED <<once, val, tpc, tidx, tret, initCalls, looked>>
    /\ UNCHANGED <<tunnelVars, resolveVars, raceVars>>

\* init without the early return of lines 291-293: the last name wins
RECURSIVE InitValLastWins(_, _, _)
InitValLastWins(names, i, v) ==
    IF i > Len(names) THEN v
    ELSE InitValLastWins(names, i + 1, environ[names[i]])

\* e.init() run to its end, lines 288-295: the value it leaves in e.val
RECURSIVE InitVal(_, _, _)
InitVal(names, i, v) ==
    IF i > Len(names) THEN v
    ELSE LET x == environ[names[i]]
         IN  IF x # "" THEN x ELSE InitVal(names, i + 1, x)

\* e.Get() by a single thread, lines 283-286, on the envOnce state st
Get(e, st) ==
    IF Resolved(st.once, st.val, e)
    THEN st
    ELSE LET v == InitVal(Names(e), 1, st.val[e])
         IN  [once |-> [st.once EXCEPT ![e].done = TRUE],
              val |-> [st.val EXCEPT ![e] = v],
              initCalls |-> [st.initCalls EXCEPT ![e] = @ + 1],
              looked |-> [st.looked EXCEPT ![e] = v]]

-----------------------------------------------------------------------------
(* FromURL, RegisterDialerType, FromEnvironment *)

NoURL == [Scheme |-> "", hasUser |-> FALSE, Username |-> "",
          hasPassword |-> FALSE, Password |-> "", Host |-> ""]

URLOf(scheme, hasUser, user, hasPassword, password, host) ==
    [Scheme |-> scheme, hasUser |-> hasUser, Username |-> user,
     hasPassword |-> hasPassword, Password |-> password, Host |-> host]

\* url.Parse(s), for the strings the proxy variables take here
ParseURL(s) ==
    CASE s = "http://u:p@proxy:8080" ->
             [ok |-> TRUE, u |-> URLOf("http", TRUE, "u", TRUE, "p", "proxy:8080")]
      [] s = "https://u@proxy:8443" ->
             [ok |-> TRUE, u |-> URLOf("https", TRUE, "u", FALSE, "", "proxy:8443")]
      [] s = "socks5://proxy:1080" ->
             [ok |-> TRUE, u |-> URLOf("socks5", FALSE, "", FALSE, "", "proxy:1080")]
      [] s = "custom://proxy:9000" ->
             [ok |-> TRUE, u |-> URLOf("custom", FALSE, "", FALSE, "", "proxy:9000")]
      [] s = "http://proxy:3128" ->
             [ok |-> TRUE, u |-> URLOf("http", FALSE, "", FALSE, "", "proxy:3128")]
      [] s = "://proxy" -> [ok |-> FALSE, u |-> NoURL]

URLStrings == (EnvValues("ALL_PROXY") \cup EnvValues("all_proxy")) \ {""}
URLs == {ParseURL(s).u : s \in {x \in URLStrings : ParseURL(x).ok}}

NilDialer == [kind |-> "nil"]

\* the factories other packages register: f1 builds a dialer, f2 refuses
Factories == {"f1", "f2"}
RegSchemes == {"custom", "http"}

CallFactory(f, u, forward, timeout) ==
    IF f = "f1"
    THEN [ret |-> [kind |-> "custom", factory |-> f, url |-> u,
                   forward |-> forward, timeout |-> timeout],
          err |-> NilErr, invoked |-> <<f>>]
    ELSE [ret |-> NilDialer, err |-> Err("f2: refused"), invoked |-> <<f>>]

\* the SOCKS5 factory of this package (socks5.go), which builds its dialer
\* or fails
SOCKS5(network, addr, auth, forward, timeout, outcome) ==
    IF outcome = "ok"
    THEN [ret |-> [kind |-> "socks5", network |-> network, addr |-> addr,
                   auth |-> auth, forward |-> forward, timeout |-> timeout],
          err |-> NilErr, invoked |-> <<"SOCKS5">>]
    ELSE [ret |-> NilDialer, err |-> Err("socks5: refused"), invoked |-> <<"SOCKS5">>]

\* NewPerHost(proxy, Direct) and perHost.AddFromString(noProxy) (per_host.go)
PerHost(def, bypass, rules) ==
    [kind |-> "perHost", def |-> def, bypass |-> bypass, rules |-> rules]

NilMap == [nil |-> TRUE, m |-> <<>>]

\* FromURL, lines 234-241
AuthOfURL(u) ==
    IF u.hasUser
    THEN AuthOf(u.Username, IF u.hasPassword THEN u.Password ELSE "")
    ELSE NilAuth

FromURLHttpOnly(reg, u, forward, timeout, socks) ==
    LET auth == AuthOfURL(u)
    IN  CASE u.Scheme = "socks5" -> SOCKS5("tcp", u.Host, auth, forward, timeout, socks)
          [] u.Scheme = "http" ->
                 [ret |-> HTTPProxyDialer("tcp", u.Host, auth, forward, timeout),
                  err |-> NilErr, invoked |-> <<"HTTPProxyDialer">>]
          [] OTHER ->
                 IF ~reg.nil /\ u.Scheme \in DOMAIN reg.m
                 THEN CallFactory(reg.m[u.Scheme], u, forward, timeout)
                 ELSE [ret |-> NilDialer,
                       err |-> Err("proxy: unknown scheme: " \o u.Scheme),
                       invoked |-> <<>>]

\* FromURL with the registry consulted before the built-in schemes
FromURLRegistryFirst(reg, u, forward, timeout, socks) ==
    IF ~reg.nil /\ u.Scheme \in DOMAIN reg.m
    THEN CallFactory(reg.m[u.Scheme], u, forward, timeout)
    ELSE FromURLHttpOnly(reg, IF u.Scheme = "https" THEN [u EXCEPT !.Scheme = "http"] ELSE u,
                         forward, timeout, socks)

\* FromURL, lines 233-259, against the registry reg
FromURL(reg, u, forward, timeout, socks) ==
    LET auth == AuthOfURL(u)
    IN  CASE u.Scheme = "socks5" -> SOCKS5("tcp", u.Host, auth, forward, timeout, socks)
          [] u.Scheme \in {"http", "https"} ->
                 [ret |-> HTTPProxyDialer("tcp", u.Host, auth, forward, timeout),
                  err |-> NilErr, invoked |-> <<"HTTPProxyDialer">>]
          [] OTHER ->
                 IF ~reg.nil /\ u.Scheme \in DOMAIN reg.m
                 THEN CallFactory(reg.m[u.Scheme], u, forward, timeout)
                 ELSE [ret |-> NilDialer,
                       err |-> Err("proxy: unknown scheme: " \o u.Scheme),
                       invoked |-> <<>>]

NoInner == [ret |-> NilDialer, err |-> NilErr, invoked |-> <<>>]
NoCall == [op |-> "none", u |-> NoURL, timeout |-> Int64(0), inner |-> NoInner,
           ret |-> NilDialer, allProxy |-> "", timeoutString |-> "",
           noProxy |-> "", reached |-> "none"]

\* RegisterDialerType, lines 224-227, with a map made afresh on every call
RegistryPutFresh(reg, scheme, f) ==
    [nil |-> FALSE, m |-> [s \in {scheme} |-> f]]

\* RegisterDialerType, lines 224-227: the registry after the call
RegistryPut(reg, scheme, f) ==
    [nil |-> FALSE,
     m |-> [s \in DOMAIN reg.m \cup {scheme} |->
                IF s = scheme THEN f ELSE reg.m[s]]]

\* RegisterDialerType, lines 223-228
RegisterDialerType(scheme, f) ==
    /\ proxySchemes' = RegistryPut(proxySchemes, scheme, f)
    /\ latest' = [latest EXCEPT ![scheme] = f]
    /\ last' = [NoCall EXCEPT !.op = "RegisterDialerType"]
    /\ UNCHANGED <<tunnelVars, envVars, raceVars>>

Register == \E scheme \in RegSchemes, f \in Factories : RegisterDialerType(scheme, f)

DefaultTimeout == MillisToDuration(Int64(1000))

\* a call of FromURL by a user of the package
CallFromURL ==
    /\ \E u \in URLs, socks \in {"ok", "fail"} :
          LET r == FromURL(proxySchemes, u, Direct, DefaultTimeout, socks)
          IN  last' = [NoCall EXCEPT !.op = "FromURL", !.u = u,
                                     !.timeout = DefaultTimeout,
                                     !.inner = r, !.ret = r.ret]
    /\ UNCHANGED <<proxySchemes, latest>>
    /\ UNCHANGED <<tunnelVars, envVars, raceVars>>

\* FromEnvironment, lines 192-199: the timeout, in milliseconds
TimeoutMillis(timeoutString) ==
    LET ts == IF timeoutString = "" THEN "1000" ELSE timeoutString
        a == Atoi(ts)
    IN  IF a.ok THEN a.n ELSE Int64(1000)

\* FromEnvironment, lines 202-204: what a failed FromURL makes it return
ResolveFailedPropagates(proxy) == proxy

ResolveFailed(proxy) == Direct

\* FromEnvironment, lines 206-213, on the dialer FromURL built
EnvWrap(st2, proxy) ==
    LET st3 == Get("noProxyEnv", st2)
        noProxy == st3.val["noProxyEnv"]
    IN  IF noProxy = ""
        THEN [st |-> st3, reached |-> "noProxy", ret |-> proxy]
        ELSE [st |-> st3, reached |-> "perHost", ret |-> PerHost(proxy, Direct, noProxy)]

\* FromEnvironment, lines 181-214, as one call by a single thread
FromEnvironment ==
    /\ \E socks \in {"ok", "fail"} :
       \E st1 \in {Get("allProxyEnv", [once |-> once, val |-> val,
                                      initCalls |-> initCalls, looked |-> looked])} :
       \E parsed \in {IF st1.val["allProxyEnv"] = "" THEN [ok |-> FALSE, u |-> NoURL]
                      ELSE ParseURL(st1.val["allProxyEnv"])} :
       \E st2 \in {IF parsed.ok THEN Get("timeoutEnv", st1) ELSE st1} :
       \E timeout \in {IF parsed.ok
                       THEN MillisToDuration(TimeoutMillis(st2.val["timeoutEnv"]))
                       ELSE Int64(0)} :
       \E r \in {IF parsed.ok THEN FromURL(proxySchemes, parsed.u, Direct, timeout, socks)
                 ELSE NoInner} :
       \E out \in {CASE st1.val["allProxyEnv"] = "" ->
                          [st |-> st1, reached |-> "allProxy", ret |-> Direct]
                     [] st1.val["allProxyEnv"] # "" /\ ~parsed.ok ->
                          [st |-> st1, reached |-> "parse", ret |-> Direct]
                     [] parsed.ok /\ ~r.err.nil ->
                          [st |-> st2, reached |-> "FromURL", ret |-> ResolveFailed(r.ret)]
                     [] OTHER -> EnvWrap(st2, r.ret)} :
           /\ once' = out.st.once
           /\ val' = out.st.val
           /\ initCalls' = out.st.initCalls
           /\ looked' = out.st.looked
           /\ last' = [op |-> "FromEnvironment",
                       u |-> parsed.u,
                       timeout |-> timeout,
                       inner |-> r,
                       ret |-> out.ret,
                       allProxy |-> st1.val["allProxyEnv"],
                       timeoutString |-> IF parsed.ok THEN st2.val["timeoutEnv"] ELSE "",
                       noProxy |-> IF out.reached \in {"noProxy", "perHost"}
                                   THEN out.st.val["noProxyEnv"] ELSE "",
                       reached |-> out.reached]
    /\ UNCHANGED <<environ, tpc, tidx, tret, proxySchemes, latest>>
    /\ UNCHANGED <<tunnelVars, raceVars>>

-----------------------------------------------------------------------------
(* RegisterDialerType and FromURL called from different threads.  Neither  *)
(* takes a lock, so each access of the variable proxySchemes ("var") and   *)
(* of the map it points to ("map") is an interval that accesses by other   *)
(* threads may overlap.                                                    *)

NumResolvers == 2  \* threads calling FromURL

Registrar == 0
Resolvers == 1..NumResolvers
RaceThreads == {Registrar} \cup Resolvers
RaceSchemes == {"custom", "http", "ftp"}

NoAccess == [loc |-> "none", kind |-> "none"]
NoRacer == [pc |-> "idle", scheme |-> "", f |-> "", acc |-> NoAccess, out |-> ""]

\* what the Go runtime may do on a map read that overlaps a map write
FatalError == "fatal error: concurrent map read and map write"

\* thread t is inside a call
InCall(t) == racer[t].pc \notin {"idle", "done"}

\* another thread is writing location loc
WrittenByOther(t, loc) ==
    \E o \in RaceThreads \ {t} : racer[o].acc = [loc |-> loc, kind |-> "write"]

\* FromURL with a registry it fills in itself: its accesses are writes
ResolveAccessWrites(t) == "write"

\* FromURL, lines 252-253: how FromURL accesses the registry
ResolveAccess(t) == "read"

\* RegisterDialerType, line 224: the call starts and reads proxySchemes
RegStart ==
    /\ racer[Registrar].pc = "idle"
    /\ ordered => \A t \in Resolvers : racer[t].pc = "idle"
    /\ \E scheme \in RegSchemes, f \in Factories :
          racer' = [racer EXCEPT ![Registrar] =
                       [pc |-> "regCheck", scheme |-> scheme, f |-> f,
                        acc |-> [loc |-> "var", kind |-> "read"], out |-> ""]]
    /\ UNCHANGED <<tunnelVars, envVars, resolveVars, ordered>>

\* RegisterDialerType, lines 224-225: the nil test; a nil map is to be made
RegCheck ==
    /\ racer[Registrar].pc = "regCheck"
    /\ racer' = [racer EXCEPT ![Registrar] =
                    IF proxySchemes.nil
                    THEN [@ EXCEPT !.pc = "regMake",
                                   !.acc = [loc |-> "var", kind |-> "write"]]
                    ELSE [@ EXCEPT !.pc = "regPut",
                                   !.acc = [loc |-> "map", kind |-> "write"]]]
    /\ UNCHANGED <<tunnelVars, envVars, resolveVars, ordered>>

\* RegisterDialerType, line 225: proxySchemes = make(...)
RegMake ==
    /\ racer[Registrar].pc = "regMake"
    /\ proxySchemes' = [nil |-> FALSE, m |-> <<>>]
    /\ racer' = [racer EXCEPT ![Registrar] =
                    [@ EXCEPT !.pc = "regPut",
                              !.acc = [loc |-> "map", kind |-> "write"]]]
    /\ UNCHANGED <<tunnelVars, envVars, latest, last, ordered>>

\* RegisterDialerType, lines 227-228: proxySchemes[scheme] = f, and return
RegPut ==
    /\ racer[Registrar].pc = "regPut"
    /\ proxySchemes' = RegistryPut(proxySchemes, racer[Registrar].scheme,
                                   racer[Registrar].f)
    /\ latest' = [latest EXCEPT ![racer[Registrar].scheme] = racer[Registrar].f]
    /\ racer' = [racer EXCEPT ![Registrar] =
                    [@ EXCEPT !.pc = "idle", !.acc = NoAccess, !.out = "registered"]]
    /\ UNCHANGED <<tunnelVars, envVars, last, ordered>>

\* FromURL, lines 243-252: a built-in scheme returns from the switch; any
\* other scheme goes on to read proxySchemes
ResStart(t) ==
    /\ racer[t].pc = "idle"
    /\ ordered => ~InCall(Registrar)
    /\ \E scheme \in RaceSchemes :
          racer' = [racer EXCEPT ![t] =
             IF scheme \in {"socks5", "http", "https"}
             THEN [pc |-> "done", scheme |-> scheme, f |-> "",
                   acc |-> NoAccess, out |-> "built-in"]
             ELSE [pc |-> "resCheck", scheme |-> scheme, f |-> "",
                   acc |-> [loc |-> "var", kind |-> ResolveAccess(t)], out |-> ""]]
    /\ UNCHANGED <<tunnelVars, envVars, resolveVars, ordered>>

\* FromURL, line 252: the nil test.  A read that overlaps the write of line
\* 225 may see either value.
ResCheck(t) ==
    /\ racer[t].pc = "resCheck"
    /\ \E seesNil \in (IF WrittenByOther(t, "var") THEN BOOLEAN
                       ELSE {proxySchemes.nil}) :
          racer' = [racer EXCEPT ![t] =
             IF seesNil
             THEN [@ EXCEPT !.pc = "done", !.acc = NoAccess,
                            !.out = "proxy: unknown scheme: " \o racer[t].scheme]
             ELSE [@ EXCEPT !.pc = "resLookup",
                            !.acc = [loc |-> "map", kind |-> ResolveAccess(t)]]]
    /\ UNCHANGED <<tunnelVars, envVars, resolveVars, ordered>>

\* what the lookup of line 253 finds in the map m
Lookup(m, scheme) ==
    IF scheme \in DOMAIN m THEN m[scheme] ELSE "proxy: unknown scheme: " \o scheme

\* FromURL, lines 253-258: the map lookup and the call of the factory.  A
\* lookup that overlaps the write of line 227 may find the map as it was, find
\* it as it will be, or end the program with a fatal error.
ResLookup(t) ==
    /\ racer[t].pc = "resLookup"
    /\ \E out \in (IF WrittenByOther(t, "map")
                   THEN {Lookup(proxySchemes.m, racer[t].scheme),
                         Lookup(RegistryPut(proxySchemes, racer[Registrar].scheme,
                                            racer[Registrar].f).m, racer[t].scheme),
                         FatalError}
                   ELSE {Lookup(proxySchemes.m, racer[t].scheme)}) :
          racer' = [racer EXCEPT ![t] =
                       [@ EXCEPT !.pc = "done", !.acc = NoAccess, !.out = out]]
    /\ UNCHANGED <<tunnelVars, envVars, resolveVars, ordered>>

\* Two threads access one location at the same time, one of them writing it
Race ==
    \E t1 \in RaceThreads, t2 \in RaceThreads :
       /\ t1 # t2
       /\ racer[t1].acc.loc # "none"
       /\ racer[t1].acc.loc = racer[t2].acc.loc
       /\ racer[t1].acc.kind = "write"

-----------------------------------------------------------------------------
(* Initial states and specifications *)

Dialers ==
    {HTTPProxyDialer(n, a, auth, Direct, DefaultTimeout) :
        n \in ProxyNetworks, a \in ProxyAddrs, auth \in Auths}

\* No Dial call of the set C has started
TunnelIdleOn(C) ==
    /\ pc = [c \in C |-> "idle"]
    /\ args = [c \in C |-> [network |-> "", addr |-> ""]]
    /\ fwd = [c \in C |-> [network |-> "", addr |-> ""]]
    /\ dials = [c \in C |-> 0]
    /\ conn = [c \in C |-> NoConn]
    /\ resp = [c \in C |-> NoResp]
    /\ failed = [c \in C |-> ""]
    /\ cret = [c \in C |-> NoRet]
    /\ ret = [c \in C |-> NoRet]
    /\ sent = [c \in C |-> <<>>]
    /\ br = [c \in C |-> <<>>]
    /\ wire = [c \in C |-> <<>>]
    /\ got = [c \in C |-> <<>>]
    /\ lastRead = [c \in C |-> NoRead]
    /\ lastWrite = [c \in C |-> ""]

TunnelIdle == TunnelIdleOn(Calls)

EnvUnresolved ==
    /\ once = [e \in Entries |-> [done |-> FALSE, holder |-> 0]]
    /\ val = [e \in Entries |-> ""]
    /\ tpc = [t \in Threads |-> "idle"]
    /\ tidx = [t \in Threads |-> 1]
    /\ tret = [t \in Threads |-> ""]
    /\ initCalls = [e \in Entries |-> 0]
    /\ looked = [e \in Entries |-> ""]

EnvironOf(allProxyU, allProxyL, noProxyU, noProxyL, timeoutU, timeoutL) ==
    [n \in EnvNames |->
        CASE n = "ALL_PROXY" -> allProxyU
          [] n = "all_proxy" -> allProxyL
          [] n = "NO_PROXY" -> noProxyU
          [] n = "no_proxy" -> noProxyL
          [] n = "TIMEOUT" -> timeoutU
          [] n = "timeout" -> timeoutL]

EmptyEnviron == EnvironOf("", "", "", "", "", "")

RegistryEmpty ==
    /\ proxySchemes = NilMap
    /\ latest = [s \in RegSchemes |-> "none"]
    /\ last = NoCall

\* No thread is inside RegisterDialerType or FromURL
RaceIdle == racer = [t \in RaceThreads |-> NoRacer]

\* One tunnel Dial on a dialer HTTPProxyDialer built, and the Reads after it
Init ==
    /\ dialer \in Dialers
    /\ TunnelIdle
    /\ environ = EmptyEnviron
    /\ EnvUnresolved
    /\ RegistryEmpty
    /\ RaceIdle
    /\ ordered = FALSE

Next ==
    \E c \in Calls :
       \/ ForwardDial(c)
       \/ SetDeadline(c)
       \/ SetReadDeadline(c)
       \/ SetWriteDeadline(c)
       \/ WriteRequest(c)
       \/ ReadResponse(c)
       \/ CheckStatus(c)
       \/ DialReturn(c)
       \/ ExpireRead(c)
       \/ ExpireWrite(c)
       \/ Read(c)
       \/ Write(c)
       \/ CallerSetDeadline(c)

Spec == Init /\ [][Next]_vars

\* Dial calls made concurrently on one dialer
ConcCalls == {1, 2}

\* what the proxy sends after the headers to the concurrent calls
ShortStreams == SeqsUpTo(Bytes, 1)

\* Concurrent Dial calls on one dialer, each up to its return
InitConcurrent ==
    /\ dialer \in {HTTPProxyDialer("tcp", a, auth, Direct, DefaultTimeout) :
                       a \in ProxyAddrs, auth \in {NilAuth, AuthOf("u", "p")}}
    /\ TunnelIdleOn(ConcCalls)
    /\ environ = EmptyEnviron
    /\ EnvUnresolved
    /\ RegistryEmpty
    /\ RaceIdle
    /\ ordered = FALSE

NextConcurrent ==
    \E c \in ConcCalls :
       \/ ForwardDial(c)
       \/ SetDeadline(c)
       \/ SetReadDeadline(c)
       \/ SetWriteDeadline(c)
       \/ WriteRequest(c)
       \/ ReadResponseFrom(c, ShortStreams)
       \/ CheckStatus(c)
       \/ DialReturn(c)

SpecConcurrent == InitConcurrent /\ [][NextConcurrent]_vars

\* One Dial call on a proxy that may never take the request or never answer,
\* while the clock runs.  Every step of Dial that can be taken is taken in
\* the end, and a deadline that is set passes in the end.
NextLive ==
    \E c \in Calls :
       \/ ForwardDial(c)
       \/ SetDeadline(c)
       \/ SetReadDeadline(c)
       \/ SetWriteDeadline(c)
       \/ WriteRequest(c)
       \/ ReadResponseFrom(c, ShortStreams)
       \/ CheckStatus(c)
       \/ DialReturn(c)
       \/ ExpireRead(c)
       \/ ExpireWrite(c)

Fairness ==
    \A c \in Calls :
       /\ WF_vars(SetDeadline(c))
       /\ WF_vars(SetReadDeadline(c))
       /\ WF_vars(SetWriteDeadline(c))
       /\ WF_vars(WriteRequest(c))
       /\ WF_vars(ReadResponseFrom(c, ShortStreams))
       /\ WF_vars(CheckStatus(c))
       /\ WF_vars(DialReturn(c))
       /\ WF_vars(ExpireRead(c))
       /\ WF_vars(ExpireWrite(c))

SpecLive == Init /\ [][NextLive]_vars /\ Fairness

\* The entry the threads of SpecEnvOnce call Get on
Subject == "allProxyEnv"

InitEnvOnce ==
    /\ dialer \in {HTTPProxyDialer("tcp", "proxy:8080", NilAuth, Direct, DefaultTimeout)}
    /\ TunnelIdle
    /\ environ \in {EnvironOf(a, b, "", "", "", "") :
                        a \in EnvValues("ALL_PROXY"), b \in EnvValues("all_proxy")}
    /\ EnvUnresolved
    /\ RegistryEmpty
    /\ RaceIdle
    /\ ordered = FALSE

NextEnvOnce ==
    \/ \E t \in Threads :
          \/ OnceFast(Subject, t)
          \/ OnceLock(Subject, t)
          \/ OnceSlow(Subject, t)
          \/ InitStep(Subject, t)
          \/ OnceStore(Subject, t)
          \/ OnceUnlock(Subject, t)
          \/ GetReturn(Subject, t)
    \/ \E i \in 1..Len(Names(Subject)) : Setenv(Names(Subject)[i])

SpecEnvOnce == InitEnvOnce /\ [][NextEnvOnce]_vars

InitResolve ==
    /\ dialer \in {HTTPProxyDialer("tcp", "proxy:8080", NilAuth, Direct, DefaultTimeout)}
    /\ TunnelIdle
    /\ environ \in {EnvironOf(a, b, c, d, e, f) :
                        a \in EnvValues("ALL_PROXY"), b \in EnvValues("all_proxy"),
                        c \in EnvValues("NO_PROXY"), d \in EnvValues("no_proxy"),
                        e \in EnvValues("TIMEOUT"), f \in EnvValues("timeout")}
    /\ EnvUnresolved
    /\ RegistryEmpty
    /\ RaceIdle
    /\ ordered = FALSE

NextResolve ==
    \/ Register
    \/ CallFromURL
    \/ FromEnvironment

SpecResolve == InitResolve /\ [][NextResolve]_vars

\* One thread calling RegisterDialerType again and again while NumResolvers
\* threads call FromURL; ordered says whether the callers keep every register
\* call before the first FromURL
InitRace ==
    /\ dialer \in {HTTPProxyDialer("tcp", "proxy:8080", NilAuth, Direct, DefaultTimeout)}
    /\ TunnelIdle
    /\ environ = EmptyEnviron
    /\ EnvUnresolved
    /\ RegistryEmpty
    /\ RaceIdle
    /\ ordered \in BOOLEAN

NextRace ==
    \/ RegStart
    \/ RegCheck
    \/ RegMake
    \/ RegPut
    \/ \E t \in Resolvers :
          \/ ResStart(t)
          \/ ResCheck(t)
          \/ ResLookup(t)

SpecRace == InitRace /\ [][NextRace]_vars

-----------------------------------------------------------------------------
(* Properties of the tunnel dialer (Spec) *)

\* C1: on the connection a successful tunnel Dial returns, the bytes Read has
\* returned so far, then the bytes still in the handshake reader's buffer,
\* then the bytes still to come on the raw connection, are exactly the bytes
\* the proxy sent after the headers, in order, however the reads are sized:
\* what the caller has read is always a prefix of what was sent, and is all
\* of it once both sources are drained.
C1_StreamPreserved ==
    \A c \in Calls :
       /\ got[c] \o br[c] \o wire[c] = sent[c]
       /\ Len(got[c]) <= Len(sent[c])
       /\ got[c] = SubSeq(sent[c], 1, Len(got[c]))
       /\ (br[c] = <<>> /\ wire[c] = <<>>) => got[c] = sent[c]

C1_Witness ==
    \E c \in Calls :
       /\ ret[c].conn = "bufferedConn"
       /\ Len(sent[c]) = MaxStream
       /\ got[c] = sent[c]
       /\ lastRead[c].fromReader > 0
       /\ lastRead[c].fromConn > 0

HandshakeFailed(c) == failed[c] \in {"write", "status"}

C3_SuccessIffStatus200 ==
    \A c \in Calls :
       (pc[c] = "returned" /\ failed[c] \in {"", "status"}) =>
          /\ (ret[c].err.nil /\ ret[c].conn # "nil") <=> (resp[c].StatusCode = 200)
          /\ resp[c].StatusCode # 200 =>
                /\ ret[c].conn = "nil"
                /\ ret[c].err = Err("unable to proxy connection: " \o resp[c].Status)

C3_Witness ==
    \E c \in Calls :
       /\ pc[c] = "returned"
       /\ resp[c].Status = "201 Created"
       /\ ~ret[c].err.nil

\* C4: when one of the three deadline setters fails, Dial has closed the raw
\* connection (once) and returned that error with no connection, and no
\* CONNECT request was or will be written to the connection.
C4_DeadlineFailureCloses ==
    \A c \in Calls :
       failed[c] = "deadline" =>
          /\ pc[c] = "returned"
          /\ conn[c].state = "closed"
          /\ conn[c].closes = 1
          /\ conn[c].written = <<>>
          /\ ret[c].conn = "nil"
          /\ ~ret[c].err.nil
          /\ ret[c].err.msg \in DeadlineErrors

C4_Witness ==
    \E c \in Calls :
       /\ failed[c] = "deadline"
       /\ conn[c].deadlines = <<"SetDeadline", "SetReadDeadline">>
       /\ conn[c].state = "closed"

\* C9: the forward dialer is asked for the proxy's network, whatever network
\* the caller passed, and for: the bare proxy address when no user is
\* configured (with or without a password), user@address when the password
\* is empty, user:password@address otherwise.
C9_ForwardDialAddress ==
    \A c \in Calls :
       pc[c] # "idle" =>
          /\ fwd[c].network = dialer.network
          /\ dialer.user = "" => fwd[c].addr = dialer.addr
          /\ (dialer.user # "" /\ dialer.password = "") =>
                fwd[c].addr = dialer.user \o "@" \o dialer.addr
          /\ (dialer.user # "" /\ dialer.password # "") =>
                fwd[c].addr = dialer.user \o ":" \o dialer.password \o "@" \o dialer.addr

C9_Witness ==
    \E c \in Calls :
       /\ pc[c] # "idle"
       /\ dialer.user = ""
       /\ dialer.password # ""
       /\ args[c].network # dialer.network
       /\ fwd[c] = [network |-> dialer.network, addr |-> dialer.addr]

-----------------------------------------------------------------------------
(* Properties of envOnce (SpecEnvOnce) *)

\* C5: however the concurrent Get calls on one unresolved entry interleave,
\* e.init is entered at most once, and a Get that has returned did so after
\* the done flag was set and returned the value that lookup left in e.val
\* (so all of them return the same value).
C5_InitOnceSameValue ==
    /\ initCalls[Subject] <= 1
    /\ \A t \in Threads :
          tpc[t] = "returned" =>
             /\ once[Subject].done
             /\ initCalls[Subject] = 1
             /\ tret[t] = looked[Subject]
    /\ \A t1, t2 \in Threads :
          (tpc[t1] = "returned" /\ tpc[t2] = "returned") => tret[t1] = tret[t2]

C5_Witness ==
    /\ \A t \in Threads : tpc[t] = "returned" /\ tret[t] # ""
    /\ initCalls[Subject] = 1

\* C6: once the entry is resolved, no step changes e.val, enters e.init or
\* clears the done flag, whatever happens to the environment, and every Get
\* that returns from then on returns the memoized value; the same when the
\* memoized value is the empty string.
C6_MemoizedForever ==
    [][once[Subject].done =>
          /\ once'[Subject].done
          /\ val'[Subject] = val[Subject]
          /\ initCalls'[Subject] = initCalls[Subject]
          /\ \A t \in Threads :
                /\ tpc'[t] \notin {"init", "store"}
                /\ (tpc[t] # "returned" /\ tpc'[t] = "returned") =>
                      tret'[t] = val[Subject]]_vars

C6_Witness ==
    /\ once[Subject].done
    /\ val[Subject] = ""
    /\ environ[Names(Subject)[1]] # ""
    /\ \E t \in Threads : tpc[t] = "load"
    /\ \E t \in Threads : tpc[t] = "returned" /\ tret[t] = ""

-----------------------------------------------------------------------------
(* Properties of FromURL and FromEnvironment (SpecResolve) *)

BuiltIn(scheme) == scheme \in {"socks5", "http", "https"}
Registered(scheme) == ~proxySchemes.nil /\ scheme \in DOMAIN proxySchemes.m

\* C7: FromEnvironment always returns a dialer, and returns Direct when the
\* proxy URL string is empty, when url.Parse rejects it, or when FromURL
\* fails for it.
C7_FromEnvironmentNeverFails ==
    last.op = "FromEnvironment" =>
       /\ last.ret.kind \in {"direct", "httpProxy", "socks5", "custom", "perHost"}
       /\ (\/ last.allProxy = ""
           \/ ~ParseURL(last.allProxy).ok
           \/ ~last.inner.err.nil) => last.ret = Direct

C7_Witness ==
    /\ last.op = "FromEnvironment"
    /\ last.reached = "FromURL"
    /\ last.inner.err = Err("proxy: unknown scheme: custom")
    /\ last.ret = Direct

\* C8: FromURL calls the SOCKS5 factory for scheme socks5 and the tunnel
\* factory for http and https; for any other scheme with a registered
\* factory it calls that factory once and returns what it returned; for any
\* other scheme it calls no factory and fails with an error naming the scheme.
C8_FromURLDispatch ==
    last.op = "FromURL" =>
       LET scheme == last.u.Scheme
           r == last.inner
       IN  /\ scheme = "socks5" => r.invoked = <<"SOCKS5">>
           /\ scheme \in {"http", "https"} =>
                 /\ r.invoked = <<"HTTPProxyDialer">>
                 /\ r.err.nil
                 /\ r.ret.kind = "httpProxy"
           /\ (~BuiltIn(scheme) /\ Registered(scheme)) =>
                 /\ r.invoked = <<proxySchemes.m[scheme]>>
                 /\ r = CallFactory(proxySchemes.m[scheme], last.u, Direct, last.timeout)
           /\ (~BuiltIn(scheme) /\ ~Registered(scheme)) =>
                 /\ r.invoked = <<>>
                 /\ r.ret = NilDialer
                 /\ r.err = Err("proxy: unknown scheme: " \o scheme)
           /\ last.ret = r.ret

C8_Witness ==
    /\ last.op = "FromURL"
    /\ last.u.Scheme = "custom"
    /\ Registered("http")
    /\ last.inner.invoked = <<"f2">>
    /\ ~last.inner.err.nil

\* a time.Duration as a sign and an unbounded magnitude
Abs64(x) == IF IsNeg64(x) THEN Neg64(x) ELSE x
SignMag(x) == [neg |-> IsNeg64(x), mag |-> Norm(Abs64(x))]

\* n milliseconds in nanoseconds, over the integers
ExactMillis(n) ==
    [neg |-> IsNeg64(n) , mag |-> Norm(MulAdd(Abs64(n), Millisecond, 0))]

\* C10: the timeout FromEnvironment hands to FromURL is 1000 ms when the
\* TIMEOUT string is empty or not a valid integer, and otherwise exactly the
\* integer it parses to, in milliseconds.
C10_TimeoutExact ==
    (last.op = "FromEnvironment" /\ last.reached \in {"FromURL", "noProxy", "perHost"}) =>
       LET ts == last.timeoutString
       IN  IF ts = "" \/ ~Atoi(ts).ok
           THEN SignMag(last.timeout) = ExactMillis(Int64(1000))
           ELSE SignMag(last.timeout) = ExactMillis(Atoi(ts).n)

\* The documented example: ALL_PROXY="http://u:p@proxy:8080" and
\* TIMEOUT="500" give the tunnel dialer with credentials u/p and 500 ms.
C10_Example ==
    (last.op = "FromEnvironment" /\ last.allProxy = "http://u:p@proxy:8080"
                                 /\ last.timeoutString = "500"
                                 /\ last.noProxy = "") =>
       last.ret = HTTPProxyDialer("tcp", "proxy:8080", AuthOf("u", "p"), Direct,
                                  MillisToDuration(Int64(500)))


\* the value init finds in the environment: that of the first name whose
\* variable is not empty, "" when there is none
FirstNonEmpty(e) ==
    IF environ[Names(e)[1]] # "" THEN environ[Names(e)[1]]
    ELSE environ[Names(e)[2]]

\* C11: a resolved entry holds the value of the first of its two names
\* (uppercase, then lowercase) whose variable is not empty, and "" when both
\* are unset or empty: a non-empty uppercase variable wins, the lowercase one
\* is used only when the uppercase one is empty.
C11_FirstNonEmptyWins ==
    \A e \in Entries :
       once[e].done =>
          /\ Names(e)[1] \in {"ALL_PROXY", "NO_PROXY", "TIMEOUT"}
          /\ val[e] = FirstNonEmpty(e)
          /\ environ[Names(e)[1]] # "" => val[e] = environ[Names(e)[1]]
          /\ environ[Names(e)[1]] = "" => val[e] = environ[Names(e)[2]]

C11_Witness ==
    /\ once["allProxyEnv"].done
    /\ once["timeoutEnv"].done
    /\ environ["ALL_PROXY"] # ""
    /\ environ["all_proxy"] # ""
    /\ val["allProxyEnv"] = environ["ALL_PROXY"]
    /\ environ["TIMEOUT"] = ""
    /\ val["timeoutEnv"] = "250"

\* C12: the registry holds, for every scheme, exactly the factory most
\* recently registered for it (a register call changes the entry of its own
\* scheme only, and no entry is ever removed), and FromURL of a URL whose
\* scheme is not built in invokes that factory.
C12_RegisterKeepsOthers ==
    /\ \A s \in RegSchemes :
          /\ latest[s] = "none" <=> ~Registered(s)
          /\ Registered(s) => proxySchemes.m[s] = latest[s]
    /\ ~proxySchemes.nil => DOMAIN proxySchemes.m \subseteq RegSchemes
    /\ (last.op = "FromURL" /\ ~BuiltIn(last.u.Scheme)
           /\ last.u.Scheme \in RegSchemes /\ latest[last.u.Scheme] # "none") =>
          last.inner.invoked = <<latest[last.u.Scheme]>>

C12_Witness ==
    /\ latest["custom"] = "f1"
    /\ latest["http"] = "f2"
    /\ last.op = "FromURL"
    /\ last.u.Scheme = "custom"
    /\ last.inner.invoked = <<"f1">>

\* C18: whatever has been registered under a built-in scheme, FromURL of a
\* URL with that scheme invokes the built-in factory and returns its dialer,
\* never the registered factory.
C18_BuiltInsFirst ==
    (last.op = "FromURL" /\ BuiltIn(last.u.Scheme) /\ Registered(last.u.Scheme)) =>
       /\ last.inner.invoked \in {<<"SOCKS5">>, <<"HTTPProxyDialer">>}
       /\ last.inner.invoked # <<proxySchemes.m[last.u.Scheme]>>
       /\ last.u.Scheme \in {"http", "https"} =>
             last.ret = HTTPProxyDialer("tcp", last.u.Host, AuthOfURL(last.u),
                                        Direct, last.timeout)

C18_Witness ==
    /\ last.op = "FromURL"
    /\ last.u.Scheme = "http"
    /\ Registered("http")
    /\ proxySchemes.m["http"] = "f1"
    /\ last.ret.kind = "httpProxy"


\* the three deadline setters in the order Dial calls them
AllDeadlines == <<"SetDeadline", "SetReadDeadline", "SetWriteDeadline">>

\* C13: in a tunnel Dial each step comes only after the one before it has
\* succeeded: forward dial, SetDeadline, SetReadDeadline, SetWriteDeadline,
\* the write of the CONNECT request, the parse of the response, the status
\* check.  No request is written before all three deadlines are set, nothing
\* is read before the request is written, and a failed step is the last.
C13_StepsInOrder ==
    \A c \in Calls :
       LET k == conn[c]
       IN  /\ k.deadlines = SubSeq(AllDeadlines, 1, Len(k.deadlines))
           /\ k.state = "none" => k.deadlines = <<>> /\ k.written = <<>>
           /\ pc[c] = "setDeadline" => k.state = "open" /\ k.deadlines = <<>>
           /\ pc[c] = "setReadDeadline" => k.deadlines = <<"SetDeadline">>
           /\ pc[c] = "setWriteDeadline" =>
                 k.deadlines = <<"SetDeadline", "SetReadDeadline">>
           /\ pc[c] \in {"write", "readResponse", "checkStatus", "connectReturned"} =>
                 k.deadlines = AllDeadlines
           /\ k.written # <<>> => k.deadlines = AllDeadlines
           /\ pc[c] \in {"setDeadline", "setReadDeadline", "setWriteDeadline", "write"} =>
                 k.written = <<>>
           /\ pc[c] \in {"readResponse", "checkStatus"} => Len(k.written) = 1
           /\ (resp[c] # NoResp \/ failed[c] = "parse") => Len(k.written) = 1
           /\ pc[c] = "checkStatus" => resp[c] # NoResp
           /\ (failed[c] = "status" \/ cret[c].conn = "bufferedConn") => resp[c] # NoResp
           /\ failed[c] = "forward" => k = NoConn
           /\ failed[c] = "deadline" => Len(k.deadlines) < 3 /\ k.written = <<>>
           /\ failed[c] = "write" => k.written = <<>> /\ resp[c] = NoResp
           /\ failed[c] = "parse" => resp[c] = NoResp

C13_Witness ==
    \E c \in Calls :
       /\ pc[c] = "returned"
       /\ ret[c].conn = "bufferedConn"
       /\ conn[c].deadlines = AllDeadlines
       /\ Len(conn[c].written) = 1
       /\ resp[c].StatusCode = 200

\* C14, as the claim states it: the bytes the caller has not yet read are
\* all in the reader's buffer or all on the raw connection, never in both.
C14_NeverSplit ==
    \A c \in Calls :
       (pc[c] = "returned" /\ ret[c].conn = "bufferedConn") =>
          ~(br[c] # <<>> /\ wire[c] # <<>>)

\* the step is a Read of call c's connection
IsRead(c) == lastRead'[c] # lastRead[c] \/ got'[c] # got[c]

\* C14: the unread bytes may lie in the buffer and on the raw connection at
\* once, but a Read is served by the raw connection only when the buffer is
\* empty, a Read served by the buffer leaves the raw connection alone, and
\* the buffer of a returned connection only shrinks: once empty it stays so.
C14_BufferFirstNeverRefilled ==
    [][\A c \in Calls :
          /\ (IsRead(c) /\ lastRead'[c].src = "conn") =>
                br[c] = <<>> /\ br'[c] = <<>>
          /\ (IsRead(c) /\ lastRead'[c].src = "reader") =>
                /\ br[c] # <<>>
                /\ wire'[c] = wire[c]
                /\ Len(br'[c]) < Len(br[c])
          /\ pc[c] = "returned" => Len(br'[c]) <= Len(br[c])
          /\ (pc[c] = "returned" /\ br[c] = <<>>) => br'[c] = <<>>]_vars

C14_Witness ==
    \E c \in Calls :
       /\ lastRead[c].src = "conn"
       /\ lastRead[c].n = 1
       /\ lastRead[c].fromReader > 0
       /\ br[c] = <<>>
       /\ wire[c] # <<>>

\* C19: Dial returns a connection and no error, or an error and no
\* connection; a call that failed after its forward dial succeeded has closed
\* the raw connection exactly once; a successful call has not closed it; no
\* call closes it before it returns.
C19_ErrorXorConn ==
    \A c \in Calls :
       /\ pc[c] # "returned" => conn[c].closes = 0
       /\ pc[c] = "returned" =>
             /\ \/ ret[c].conn # "nil" /\ ret[c].err.nil
                \/ ret[c].conn = "nil" /\ ~ret[c].err.nil
             /\ ret[c].err.nil <=> failed[c] = ""
             /\ failed[c] = "forward" => conn[c] = NoConn
             /\ failed[c] \in {"deadline", "write", "parse", "status"} =>
                   conn[c].state = "closed" /\ conn[c].closes = 1
             /\ failed[c] = "" =>
                   /\ ret[c].conn = "bufferedConn"
                   /\ conn[c].state = "open"
                   /\ conn[c].closes = 0

C19_Witness ==
    \E c \in Calls :
       /\ pc[c] = "returned"
       /\ failed[c] = "parse"
       /\ ret[c] = [conn |-> "nil", err |-> Err(TimeoutError)]
       /\ conn[c].state = "closed"
       /\ conn[c].closes = 1

\* Dial has returned call c a connection
Succeeded(c) == pc[c] = "returned" /\ ret[c].conn = "bufferedConn"

\* the handshake deadlines of a call that has passed the three setters: each
\* was set once, and none has been cleared
DeadlinesKept(c) ==
    (pc[c] \in {"write", "readResponse", "checkStatus", "connectReturned"}
        \/ Succeeded(c)) =>
       /\ conn[c].deadlines = AllDeadlines
       /\ conn[c].rd \in {"armed", "expired"}
       /\ conn[c].wd \in {"armed", "expired"}

\* after the setters, a deadline changes only when the clock passes it or
\* when the caller of Dial sets a new one on the connection it was returned
DeadlinesUntouched(c) ==
    /\ (pc[c] \in {"write", "readResponse", "checkStatus", "connectReturned"}
           /\ conn'[c].rd # conn[c].rd) => ExpireRead(c)
    /\ (pc[c] \in {"write", "readResponse", "checkStatus", "connectReturned"}
           /\ conn'[c].wd # conn[c].wd) => ExpireWrite(c)
    /\ (pc[c] = "returned" /\ <<conn'[c].rd, conn'[c].wd>> # <<conn[c].rd, conn[c].wd>>) =>
          ExpireRead(c) \/ ExpireWrite(c) \/ CallerSetDeadline(c)

\* C20, as the claim states it: the three deadlines are set once each and
\* never cleared, so that a Read or a Write on the returned connection made
\* after its deadline has passed fails with a deadline error.
C20_ReadsFailAfterDeadline ==
    [][\A c \in Calls :
          /\ DeadlinesKept(c)
          /\ DeadlinesUntouched(c)
          /\ (Succeeded(c) /\ IsRead(c) /\ conn[c].rd = "expired") =>
                lastRead'[c].err = TimeoutError
          /\ (Succeeded(c) /\ lastWrite'[c] # lastWrite[c] /\ conn[c].wd = "expired") =>
                lastWrite'[c] = TimeoutError]_vars

\* C20: a Dial that gets past the three setters has set each deadline once,
\* and none is cleared or set again by Dial, so the returned connection still
\* carries them.  Once the read deadline has passed, a Read that goes to the
\* raw connection fails with a timeout and delivers nothing, while a Read
\* served by the buffer still succeeds; once the write deadline has passed a
\* Write fails with a timeout; before that, neither fails with one.
C20_DeadlinesOutliveDial ==
    [][\A c \in Calls :
          /\ DeadlinesKept(c)
          /\ DeadlinesKept(c)'
          /\ DeadlinesUntouched(c)
          /\ (Succeeded(c) /\ IsRead(c)) =>
                /\ lastRead'[c].err = TimeoutError <=>
                      (lastRead'[c].src = "conn" /\ conn[c].rd = "expired")
                /\ lastRead'[c].err = TimeoutError =>
                      lastRead'[c].n = 0 /\ got'[c] = got[c] /\ wire'[c] = wire[c]
                /\ lastRead'[c].src = "reader" => lastRead'[c].err = ""
          /\ (Succeeded(c) /\ lastWrite'[c] # lastWrite[c]) =>
                (lastWrite'[c] = TimeoutError <=> conn[c].wd = "expired")]_vars

C20_Witness ==
    \E c \in Calls :
       /\ Succeeded(c)
       /\ conn[c].deadlines = AllDeadlines
       /\ conn[c].rd = "expired"
       /\ conn[c].wd = "expired"
       /\ lastRead[c].err = TimeoutError
       /\ lastRead[c].fromReader > 0
       /\ lastWrite[c] = TimeoutError


\* C15: RegisterDialerType and FromURL take no lock, so a write of the
\* registry by the one and a read of it by the other can overlap; when every
\* register call has returned before the first FromURL starts, no access of
\* the registry overlaps a write of it, no FromURL ends in the runtime's
\* fatal error, and FromURL finds what was registered last.
C15_RaceOnlyWhenUnordered ==
    /\ Race => ~ordered
    /\ ordered =>
          \A t \in Resolvers :
             /\ racer[t].out # FatalError
             /\ (racer[t].pc = "done" /\ racer[t].scheme = "custom") =>
                   racer[t].out = (IF latest["custom"] = "none"
                                   THEN "proxy: unknown scheme: custom"
                                   ELSE latest["custom"])

C15_Witness ==
    \E t \in Resolvers :
       /\ ~ordered
       /\ Race
       /\ racer[Registrar].acc = [loc |-> "map", kind |-> "write"]
       /\ racer[t].acc = [loc |-> "map", kind |-> "read"]
       /\ racer[t].scheme = "custom"
       /\ racer[Registrar].scheme = "custom"


\* C16: with Dial calls running concurrently on one dialer, no field of the
\* dialer ever changes, each call calls s.forward.Dial once and only once,
\* and the connection a call's forward dial returned is operated on by that
\* call alone.
C16_CallsShareNothing ==
    [][/\ dialer' = dialer
       /\ \A c \in DOMAIN pc :
             /\ dials'[c] >= dials[c]
             /\ dials'[c] = (IF pc'[c] = "idle" THEN 0 ELSE 1)
             /\ conn'[c].users \subseteq {c}
             /\ conn'[c].state # "none" => conn'[c].users = {c}]_vars

C16_Witness ==
    \E c \in DOMAIN pc, d \in DOMAIN pc :
       /\ c # d
       /\ pc[c] = "readResponse"
       /\ conn[c].users = {c}
       /\ conn[c].closes = 0
       /\ pc[d] = "returned"
       /\ failed[d] = "status"
       /\ conn[d].users = {d}
       /\ conn[d].closes = 1

\* C17: a Dial call whose forward dial has returned returns in the end: the
\* write of the request and the read of the response each complete, fail, or
\* are ended by the deadline set before them, even when the proxy never
\* takes the request or never answers.
C17_DialReturns ==
    \A c \in Calls : (pc[c] # "idle") ~> (pc[c] = "returned")

C17_Witness ==
    \E c \in Calls :
       /\ pc[c] = "returned"
       /\ conn[c].peer = "silent"
       /\ failed[c] = "parse"
       /\ ret[c].err = Err(TimeoutError)
       /\ Len(conn[c].written) = 1

====
